---- MODULE Spec2Model ----
(***************************************************************************)
(* A model of placebo.py: the two treatment-plan generators                *)
(* (generate_plan_seq_randomized, generate_plan_seq_binary_crossover), the *)
(* date enumerator (enumerate_seq) and the pill-organizer grid formatter   *)
(* (grid_dated_strings).                                                   *)
(*                                                                         *)
(* SpecGen runs one call of a generator step by step; FairSpecGen adds the *)
(* fairness of a running interpreter.  SpecGrid applies enumerate_seq and  *)
(* grid_dated_strings to inputs drawn from bounded sets.  Text is modelled *)
(* as sequences of one-character strings.                                  *)
(***************************************************************************)
EXTENDS Integers, Sequences, FiniteSets, TLC

VARIABLES
    \* ---- generator call (src/placebo.py:8-81) ----
    fn,               \* which generator is called: "randomized" or "crossover"
    duration,         \* argument duration
    interval_min,     \* argument interval_min
    interval_max,     \* argument interval_max
    treatments,       \* argument treatments: [none |-> BOOLEAN, items |-> Seq]
    plan,             \* local plan
    treatment_index,  \* local treatment_index of the crossover variant
    pc,               \* position of the call
    drew,             \* history: a random draw (randrange/choice) has been made
    iters,            \* history: loop iterations executed (saturates at MaxIters)
    initial_index,    \* history: the value choice([0,1]) returned, -1 before
    prev_label,       \* history: label of the block appended last, NoBlock before
    \* ---- enumerate_seq / grid_dated_strings (src/placebo.py:84-159) ----
    s,                \* argument s of enumerate_seq (a plan of labels)
    use_date,         \* argument use_date
    start_date,       \* argument start_date (text)
    dated_strings,    \* result of enumerate_seq / argument of grid_dated_strings
    grid,             \* result of grid_dated_strings (text)
    epc,              \* position of the pipeline
    origin            \* "pipeline": grid input from enumerate_seq; "direct": given

genVars  == <<fn, duration, interval_min, interval_max, treatments, plan,
              treatment_index, pc, drew, iters, initial_index, prev_label>>
gridVars == <<s, use_date, start_date, dated_strings, grid, epc, origin>>
vars     == <<genVars, gridVars>>

-----------------------------------------------------------------------------
(* Bounds of the generator model *)
MaxDuration == 3
MaxInterval == 3
MaxTreatments == 3
MaxIters == MaxDuration + 2

Min(a, b) == IF a < b THEN a ELSE b
Max(a, b) == IF a > b THEN a ELSE b

GenLabels == {"placebo", "treatment"}
NoBlock == "<none>"

\* default of both generators when treatments is None
DefaultTreatments == <<"placebo", "treatment">>

SeqsUpTo(S, n) == UNION {[1..k -> S] : k \in 0..n}

TreatmentArgs ==
    {[none |-> TRUE, items |-> <<>>]}
    \cup {[none |-> FALSE, items |-> t] : t \in SeqsUpTo(GenLabels, MaxTreatments)}

\* [x] * n : a list of n copies of x, empty when n <= 0
Repeat(x, n) == [i \in 1..Max(n, 0) |-> x]

\* the assertion both generators start with
\* (faulty variant: the assertion left out)
IntervalAssertMut(lo, hi) == TRUE
IntervalAssert(lo, hi) == hi >= lo

\* assert len(treatments) == 2
\* (faulty variant: at least two options)
LenAssertMut(t) == Len(t) >= 2
LenAssert(t) == Len(t) = 2

\* the interval lengths one iteration may draw
\* (faulty variants: a range one too low, one too high)
IntervalDrawsMutLow(lo, hi) == IF lo = hi THEN {lo - 1} ELSE (lo - 1)..hi
IntervalDrawsMutHigh(lo, hi) == IF lo = hi THEN {lo} ELSE lo..(hi + 1)
IntervalDraws(lo, hi) == IF lo = hi THEN {lo} ELSE lo..hi

\* not_gate of the crossover variant
\* (faulty variant: no swap)
not_gate_mut(x) == x
not_gate(x) == IF x = 0 THEN 1 ELSE 0

\* plan[:duration]
\* (faulty variant: no cut)
TruncateMut(p, d) == p
Truncate(p, d) ==
    IF d >= 0 THEN SubSeq(p, 1, Min(d, Len(p)))
    ELSE SubSeq(p, 1, Max(Len(p) + d, 0))

Bump(n) == IF n < MaxIters THEN n + 1 ELSE n

GenInit ==
    /\ fn \in {"randomized", "crossover"}
    /\ duration \in -1..MaxDuration
    /\ interval_min \in -1..MaxInterval
    /\ interval_max \in -1..MaxInterval
    /\ treatments \in TreatmentArgs
    /\ plan = <<>>
    /\ treatment_index = -1
    /\ pc = "start"
    /\ drew = FALSE
    /\ iters = 0
    /\ initial_index = -1
    /\ prev_label = NoBlock

GenIdle ==
    /\ fn = "none"
    /\ duration = 0
    /\ interval_min = 0
    /\ interval_max = 0
    /\ treatments = [none |-> TRUE, items |-> <<>>]
    /\ plan = <<>>
    /\ treatment_index = -1
    /\ pc = "idle"
    /\ drew = FALSE
    /\ iters = 0
    /\ initial_index = -1
    /\ prev_label = NoBlock

\* ---- generate_plan_seq_randomized ----
R_Assert ==
    /\ fn = "randomized" /\ pc = "start"
    /\ pc' = IF IntervalAssert(interval_min, interval_max) THEN "default" ELSE "failed"
    /\ UNCHANGED <<fn, duration, interval_min, interval_max, treatments, plan,
                   treatment_index, drew, iters, initial_index, prev_label>>

R_Default ==
    /\ fn = "randomized" /\ pc = "default"
    /\ treatments' = IF treatments.none
                     THEN [none |-> FALSE, items |-> DefaultTreatments]
                     ELSE treatments
    /\ pc' = "loop"
    /\ UNCHANGED <<fn, duration, interval_min, interval_max, plan,
                   treatment_index, drew, iters, initial_index, prev_label>>

\* one iteration with a non-empty treatments list
R_Loop ==
    /\ fn = "randomized" /\ pc = "loop"
    /\ Len(plan) < duration
    /\ treatments.items # <<>>
    /\ \E interval \in IntervalDraws(interval_min, interval_max) :
       \E k \in 1..Len(treatments.items) :
          /\ plan' = plan \o Repeat(treatments.items[k], interval)
          /\ prev_label' = treatments.items[k]
    /\ drew' = TRUE
    /\ iters' = Bump(iters)
    /\ UNCHANGED <<fn, duration, interval_min, interval_max, treatments,
                   treatment_index, pc, initial_index>>

\* choice([]) raises IndexError
R_LoopEmpty ==
    /\ fn = "randomized" /\ pc = "loop"
    /\ Len(plan) < duration
    /\ treatments.items = <<>>
    /\ drew' = (drew \/ interval_min # interval_max)
    /\ pc' = "index_error"
    /\ UNCHANGED <<fn, duration, interval_min, interval_max, treatments, plan,
                   treatment_index, iters, initial_index, prev_label>>

R_Return ==
    /\ fn = "randomized" /\ pc = "loop"
    /\ ~(Len(plan) < duration)
    /\ plan' = Truncate(plan, duration)
    /\ pc' = "done"
    /\ UNCHANGED <<fn, duration, interval_min, interval_max, treatments,
                   treatment_index, drew, iters, initial_index, prev_label>>

\* ---- generate_plan_seq_binary_crossover ----
X_Assert ==
    /\ fn = "crossover" /\ pc = "start"
    /\ pc' = IF IntervalAssert(interval_min, interval_max) THEN "default" ELSE "failed"
    /\ UNCHANGED <<fn, duration, interval_min, interval_max, treatments, plan,
                   treatment_index, drew, iters, initial_index, prev_label>>

X_Default ==
    /\ fn = "crossover" /\ pc = "default"
    /\ treatments' = IF treatments.none
                     THEN [none |-> FALSE, items |-> DefaultTreatments]
                     ELSE treatments
    /\ pc' = "assert_len"
    /\ UNCHANGED <<fn, duration, interval_min, interval_max, plan,
                   treatment_index, drew, iters, initial_index, prev_label>>

X_AssertLen ==
    /\ fn = "crossover" /\ pc = "assert_len"
    /\ pc' = IF LenAssert(treatments.items) THEN "choose" ELSE "failed"
    /\ UNCHANGED <<fn, duration, interval_min, interval_max, treatments, plan,
                   treatment_index, drew, iters, initial_index, prev_label>>

X_Choose ==
    /\ fn = "crossover" /\ pc = "choose"
    /\ \E c \in {0, 1} :
          /\ treatment_index' = c
          /\ initial_index' = c
    /\ drew' = TRUE
    /\ pc' = "loop"
    /\ UNCHANGED <<fn, duration, interval_min, interval_max, treatments, plan,
                   iters, prev_label>>

X_Loop ==
    /\ fn = "crossover" /\ pc = "loop"
    /\ Len(plan) < duration
    /\ \E interval \in IntervalDraws(interval_min, interval_max) :
          /\ treatment_index' = not_gate(treatment_index)
          /\ plan' = plan \o Repeat(treatments.items[treatment_index' + 1], interval)
          /\ prev_label' = treatments.items[treatment_index' + 1]
    /\ iters' = Bump(iters)
    /\ UNCHANGED <<fn, duration, interval_min, interval_max, treatments,
                   pc, drew, initial_index>>

X_Return ==
    /\ fn = "crossover" /\ pc = "loop"
    /\ ~(Len(plan) < duration)
    /\ plan' = Truncate(plan, duration)
    /\ pc' = "done"
    /\ UNCHANGED <<fn, duration, interval_min, interval_max, treatments,
                   treatment_index, drew, iters, initial_index, prev_label>>

GridIdle ==
    /\ s = <<>>
    /\ use_date = TRUE
    /\ start_date = <<>>
    /\ dated_strings = <<>>
    /\ grid = <<>>
    /\ epc = "idle"
    /\ origin = "none"

InitGen == GenInit /\ GridIdle

NextGen ==
    \/ (R_Assert /\ UNCHANGED gridVars)
    \/ (R_Default /\ UNCHANGED gridVars)
    \/ (R_Loop /\ UNCHANGED gridVars)
    \/ (R_LoopEmpty /\ UNCHANGED gridVars)
    \/ (R_Return /\ UNCHANGED gridVars)
    \/ (X_Assert /\ UNCHANGED gridVars)
    \/ (X_Default /\ UNCHANGED gridVars)
    \/ (X_AssertLen /\ UNCHANGED gridVars)
    \/ (X_Choose /\ UNCHANGED gridVars)
    \/ (X_Loop /\ UNCHANGED gridVars)
    \/ (X_Return /\ UNCHANGED gridVars)

SpecGen == InitGen /\ [][NextGen]_vars

\* a running interpreter keeps executing the call until it returns or raises
FairSpecGen == SpecGen /\ WF_vars(NextGen)

-----------------------------------------------------------------------------
(* Properties of the generators *)

CrossoverArgsOk ==
    /\ fn = "crossover"
    /\ interval_max >= interval_min
    /\ Len(treatments.items) = 2

RandomizedArgsOk ==
    /\ fn = "randomized"
    /\ interval_max >= interval_min
    /\ treatments.items # <<>>

\* lengths of the maximal runs of identical adjacent entries, in order
RECURSIVE RunsFrom(_, _, _)
RunsFrom(p, i, cur) ==
    IF i > Len(p) THEN <<cur>>
    ELSE IF p[i] = p[i - 1] THEN RunsFrom(p, i + 1, cur + 1)
    ELSE <<cur>> \o RunsFrom(p, i + 1, 1)
Runs(p) == IF p = <<>> THEN <<>> ELSE RunsFrom(p, 2, 1)

\* C1: a generator that returns, called with duration >= 0, returns a plan of
\* exactly duration entries (both variants), although the plan is built from
\* whole intervals that may overrun before the truncation.
C1_PlanLength ==
    (pc = "done" /\ duration >= 0) => Len(plan) = duration

\* C1 witness: a returned plan of 3 entries built from intervals of at least 2,
\* so the last interval overran and was cut.
C1_Witness ==
    /\ pc = "done" /\ duration = 3 /\ interval_min = 2 /\ Len(plan) = 3
    /\ fn = "crossover"

\* C2 as stated (on its cases with blocks of at least one entry): two blocks
\* appended in consecutive iterations of the crossover loop always carry
\* different labels.
C2_Original ==
    [][(fn = "crossover" /\ pc = "loop" /\ pc' = "loop" /\ interval_min >= 1
          /\ prev_label # NoBlock)
         => prev_label' # prev_label]_vars

\* C2 amended: every crossover iteration flips the index (the first one to the
\* opposite of the initial random index), appends only copies of the label at
\* the new index, and that label differs from the previous block's label
\* whenever the two supplied labels differ.
C2_Alternation ==
    [][(fn = "crossover" /\ pc = "loop" /\ pc' = "loop") =>
         /\ treatment_index' = 1 - treatment_index
         /\ treatment_index' \in {0, 1}
         /\ (iters = 0 => treatment_index' = 1 - initial_index)
         /\ prev_label' = treatments.items[treatment_index' + 1]
         /\ Len(plan') >= Len(plan)
         /\ SubSeq(plan', 1, Len(plan)) = plan
         /\ \A i \in (Len(plan) + 1)..Len(plan') : plan'[i] = prev_label'
         /\ ((treatments.items[1] # treatments.items[2] /\ prev_label # NoBlock)
                => prev_label' # prev_label)]_vars

\* C2 witness: a third block has been appended after two non-empty ones.
C2_Witness ==
    /\ fn = "crossover" /\ pc = "loop" /\ iters = 3 /\ Len(plan) = 3
    /\ plan[1] # plan[2] /\ plan[2] # plan[3]

\* C3 as stated (on its cases with two different labels and interval_min >= 0):
\* in a returned crossover plan every maximal run but the last has a length in
\* [interval_min, interval_max], and the last one is at most interval_max long.
C3_Original ==
    (fn = "crossover" /\ pc = "done" /\ interval_min >= 0
       /\ treatments.items[1] # treatments.items[2]) =>
        LET r == Runs(plan) IN
        /\ \A i \in 1..(Len(r) - 1) : r[i] >= interval_min /\ r[i] <= interval_max
        /\ (r # <<>> => r[Len(r)] <= interval_max)

\* C3 amended: the same, for interval_min >= 1 and two different labels.
C3_RunLengths ==
    (fn = "crossover" /\ pc = "done" /\ interval_min >= 1
       /\ treatments.items[1] # treatments.items[2]) =>
        LET r == Runs(plan) IN
        /\ \A i \in 1..(Len(r) - 1) : r[i] >= interval_min /\ r[i] <= interval_max
        /\ (r # <<>> => r[Len(r)] <= interval_max)

\* C3 witness: a returned plan with a full run followed by a shortened last run.
C3_Witness ==
    /\ fn = "crossover" /\ pc = "done" /\ interval_min = 2 /\ interval_max = 3
    /\ duration = 3 /\ Runs(plan) = <<2, 1>>

\* C4: with interval_max < interval_min both generators fail on their first
\* assertion: no random draw has been made and the plan is still empty.
C4_FailFast ==
    (interval_max < interval_min) =>
        /\ pc \in {"start", "failed"}
        /\ ~drew
        /\ plan = <<>>

\* C4 witness: a call with duration 0 and interval_max < interval_min that failed.
C4_Witness ==
    pc = "failed" /\ interval_max < interval_min /\ duration = 0

\* C5 as stated: the crossover variant emits a label only when treatments is a
\* pair of two different labels; every other list is rejected before that.
C5_Original ==
    (fn = "crossover" /\ plan # <<>>) =>
        /\ Len(treatments.items) = 2
        /\ treatments.items[1] # treatments.items[2]

\* C5 amended: the crossover variant fails on an assertion exactly when
\* interval_max < interval_min or the treatments list does not have exactly 2
\* entries (equal or not); it fails before any draw and any label.
C5_LengthTwo ==
    /\ (fn = "crossover" /\ pc \in {"choose", "loop", "done"})
          => Len(treatments.items) = 2
    /\ (fn = "crossover" /\ pc = "failed")
          => /\ (interval_max < interval_min \/ Len(treatments.items) # 2)
             /\ ~drew
             /\ plan = <<>>

\* C5 witness: a list of 3 labels was rejected, with valid interval bounds.
C5_Witness ==
    /\ fn = "crossover" /\ pc = "failed" /\ interval_max >= interval_min
    /\ Len(treatments.items) = 3

\* C10: with interval_max >= interval_min >= 1 and valid treatments every call
\* eventually returns; each loop iteration lengthens the plan by at least
\* interval_min, and the loop runs at most duration times.
C10_Termination ==
    /\ ((interval_min >= 1 /\ interval_max >= interval_min
            /\ (CrossoverArgsOk \/ RandomizedArgsOk \/ treatments.none))
           => <>(pc = "done"))
    /\ []((interval_min >= 1 /\ duration >= 0) => iters <= duration)
    /\ [][(pc = "loop" /\ pc' = "loop" /\ interval_min >= 1)
             => Len(plan') >= Len(plan) + interval_min]_vars

\* C10 witness: a call that returned after exactly duration iterations.
C10_Witness ==
    /\ pc = "done" /\ interval_min = 1 /\ duration = 3 /\ iters = 3

-----------------------------------------------------------------------------
(* Text: sequences of one-character strings *)

Digits == <<"0","1","2","3","4","5","6","7","8","9">>
IsDigit(c) == \E i \in 1..10 : Digits[i] = c
DigitVal(c) == (CHOOSE i \in 1..10 : Digits[i] = c) - 1

\* str(n) for n >= 0
RECURSIVE Dec(_)
Dec(n) == IF n < 10 THEN <<Digits[n + 1]>>
          ELSE Dec(n \div 10) \o <<Digits[(n % 10) + 1]>>

\* int(t) for a text of digits
RECURSIVE NumVal(_)
NumVal(t) == IF t = <<>> THEN 0
             ELSE 10 * NumVal(SubSeq(t, 1, Len(t) - 1)) + DigitVal(t[Len(t)])

Fill(c, n) == [i \in 1..n |-> c]
ZFill(t, w) == Fill("0", w - Len(t)) \o t
\* str.ljust / str.rjust: pad with spaces, never truncate
LJust(t, w) == t \o Fill(" ", w - Len(t))
RJust(t, w) == Fill(" ", w - Len(t)) \o t

\* sep.join(parts)
RECURSIVE Join(_, _)
Join(parts, sep) ==
    IF parts = <<>> THEN <<>>
    ELSE IF Len(parts) = 1 THEN parts[1]
    ELSE parts[1] \o sep \o Join(Tail(parts), sep)

\* t.split(sep): cut at every non-overlapping occurrence of sep, left to right
RECURSIVE SplitFrom(_, _, _, _)
SplitFrom(t, sep, i, start) ==
    IF i + Len(sep) - 1 > Len(t) THEN <<SubSeq(t, start, Len(t))>>
    ELSE IF SubSeq(t, i, i + Len(sep) - 1) = sep
         THEN <<SubSeq(t, start, i - 1)>>
              \o SplitFrom(t, sep, i + Len(sep), i + Len(sep))
         ELSE SplitFrom(t, sep, i + 1, start)
Split(t, sep) == SplitFrom(t, sep, 1, 1)

\* t.splitlines(): lines without their line break, no empty line after a final break
SplitLines(t) ==
    LET parts == Split(t, <<"\n">>) IN
    IF parts[Len(parts)] = <<>> THEN SubSeq(parts, 1, Len(parts) - 1) ELSE parts

-----------------------------------------------------------------------------
(* Dates: datetime, timedelta, calendar.monthrange *)

IsLeap(y) == y % 4 = 0 /\ (y % 100 # 0 \/ y % 400 = 0)

DaysInMonthTable == <<31, 28, 31, 30, 31, 30, 31, 31, 30, 31, 30, 31>>
DaysBeforeMonthTable == <<0, 31, 59, 90, 120, 151, 181, 212, 243, 273, 304, 334>>

\* monthrange(year, month)[1]
DaysInMonth(y, m) == IF m = 2 /\ IsLeap(y) THEN 29 ELSE DaysInMonthTable[m]

DaysBeforeYear(y) ==
    (y - 1) * 365 + ((y - 1) \div 4) - ((y - 1) \div 100) + ((y - 1) \div 400)
DaysBeforeMonth(y, m) ==
    DaysBeforeMonthTable[m] + (IF m > 2 /\ IsLeap(y) THEN 1 ELSE 0)

\* date.toordinal()
ToOrdinal(dt) == DaysBeforeYear(dt.y) + DaysBeforeMonth(dt.y, dt.m) + dt.d

\* date.fromordinal(n), as datetime computes it from 400/100/4/1-year cycles
FromOrdinal(ord) ==
    LET n0   == ord - 1
        n400 == n0 \div 146097
        r400 == n0 % 146097
        n100 == r400 \div 36524
        r100 == r400 % 36524
        n4   == r100 \div 1461
        r4   == r100 % 1461
        n1   == r4 \div 365
        n    == r4 % 365
        year == n400 * 400 + 1 + n100 * 100 + n4 * 4 + n1
    IN  IF n1 = 4 \/ n100 = 4 THEN [y |-> year - 1, m |-> 12, d |-> 31]
        ELSE
        LET leap  == n1 = 3 /\ (n4 # 24 \/ n100 = 3)
            m0    == (n + 50) \div 32
            prec0 == DaysBeforeMonthTable[m0] + (IF m0 > 2 /\ leap THEN 1 ELSE 0)
            month == IF prec0 > n THEN m0 - 1 ELSE m0
            prec  == IF prec0 > n
                     THEN prec0 - (DaysInMonthTable[month]
                                   + (IF month = 2 /\ leap THEN 1 ELSE 0))
                     ELSE prec0
        IN  [y |-> year, m |-> month, d |-> n - prec + 1]

\* date + timedelta(days=k)
\* (faulty variant: a day skipped at every change of month)
AddDaysMut(dt, k) ==
    FromOrdinal(ToOrdinal(dt) + k
                + (IF FromOrdinal(ToOrdinal(dt) + k).m # dt.m THEN 1 ELSE 0))
AddDays(dt, k) == FromOrdinal(ToOrdinal(dt) + k)

\* strftime('%Y-%m-%d') and strftime('%Y-%m'), for years of 4 digits (below
\* year 1000 the platform's strftime decides whether %Y is zero-padded)
StrfDate(dt) ==
    ZFill(Dec(dt.y), 4) \o <<"-">> \o ZFill(Dec(dt.m), 2) \o <<"-">> \o ZFill(Dec(dt.d), 2)
StrfYearMonth(dt) == ZFill(Dec(dt.y), 4) \o <<"-">> \o ZFill(Dec(dt.m), 2)

MonthNames == <<<<"J","a","n","u","a","r","y">>,
               <<"F","e","b","r","u","a","r","y">>,
               <<"M","a","r","c","h">>,
               <<"A","p","r","i","l">>,
               <<"M","a","y">>,
               <<"J","u","n","e">>,
               <<"J","u","l","y">>,
               <<"A","u","g","u","s","t">>,
               <<"S","e","p","t","e","m","b","e","r">>,
               <<"O","c","t","o","b","e","r">>,
               <<"N","o","v","e","m","b","e","r">>,
               <<"D","e","c","e","m","b","e","r">>>>

\* strftime('%B %Y')
StrfMonthName(dt) == MonthNames[dt.m] \o <<" ">> \o ZFill(Dec(dt.y), 4)

AllDigits(t) == \A i \in 1..Len(t) : IsDigit(t[i])

\* the directive patterns of strptime: %Y = \d\d\d\d, %m = 1[0-2]|0[1-9]|[1-9],
\* %d = 3[01]|[12]\d|0[1-9]|[1-9]| [1-9]
MatchesYear(t) == Len(t) = 4 /\ AllDigits(t)
MatchesMonth(t) ==
    \/ (Len(t) = 2 /\ AllDigits(t) /\ NumVal(t) \in 1..12)
    \/ (Len(t) = 1 /\ AllDigits(t) /\ NumVal(t) \in 1..9)
MatchesDay(t) ==
    \/ (Len(t) = 2 /\ AllDigits(t) /\ NumVal(t) \in 1..31)
    \/ (Len(t) = 1 /\ AllDigits(t) /\ NumVal(t) \in 1..9)
    \/ (Len(t) = 2 /\ t[1] = " " /\ IsDigit(t[2]) /\ DigitVal(t[2]) \in 1..9)
DayVal(t) == IF t[1] = " " THEN DigitVal(t[2]) ELSE NumVal(t)

NoDate == [y |-> 0, m |-> 0, d |-> 0]

\* datetime.strptime(t, '%Y-%m-%d'): ok is FALSE where it raises ValueError
StrpTime(t) ==
    LET p == Split(t, <<"-">>) IN
    IF /\ Len(p) = 3
       /\ MatchesYear(p[1]) /\ MatchesMonth(p[2]) /\ MatchesDay(p[3])
       /\ NumVal(p[1]) >= 1
       /\ DayVal(p[3]) <= DaysInMonth(NumVal(p[1]), NumVal(p[2]))
    THEN [ok |-> TRUE,
          date |-> [y |-> NumVal(p[1]), m |-> NumVal(p[2]), d |-> DayVal(p[3])]]
    ELSE [ok |-> FALSE, date |-> NoDate]

-----------------------------------------------------------------------------
(* enumerate_seq *)

\* date_item(date, d, item), with i the 1-based position of item
DateItem(start, i, item) == StrfDate(AddDays(start, i - 1)) \o <<":", " ">> \o item

\* the ordinal line f"{i+1}. {item}", with i the 1-based position of item
OrdinalItem(i, item) == Dec(i) \o <<".", " ">> \o item

EnumerateSeq(seq, dated, start_text) ==
    LET start == StrpTime(start_text) IN
    IF ~start.ok THEN [ok |-> FALSE, text |-> <<>>]
    ELSE IF ~dated
         THEN [ok |-> TRUE,
               text |-> Join([i \in 1..Len(seq) |-> OrdinalItem(i, seq[i])], <<"\n">>)]
         ELSE [ok |-> TRUE,
               text |-> Join([i \in 1..Len(seq) |-> DateItem(start.date, i, seq[i])],
                             <<"\n">>)]

-----------------------------------------------------------------------------
(* grid_dated_strings *)

CellWidth == 10
DayWidth == 2
RowSlots == 8

Separator == <<":", " ">>

\* data: the (date, value) pairs of the lines; ok is FALSE where the unpacking
\* of a split line or strptime raises ValueError
ParseDated(text) ==
    LET lines == SplitLines(text)
        parts == [i \in 1..Len(lines) |-> Split(lines[i], Separator)]
    IN  IF \E i \in 1..Len(lines) :
              \/ Len(parts[i]) # 2
              \/ ~StrpTime(parts[i][1]).ok
        THEN [ok |-> FALSE, data |-> <<>>]
        ELSE [ok |-> TRUE,
              data |-> [i \in 1..Len(lines) |->
                          [date |-> StrpTime(parts[i][1]).date, value |-> parts[i][2]]]]

\* groupby(data, key = '%Y-%m'): a new group wherever the key changes
RECURSIVE GroupFrom(_, _, _)
GroupFrom(data, i, cur) ==
    IF i > Len(data) THEN <<cur>>
    ELSE IF StrfYearMonth(data[i].date) = StrfYearMonth(data[i - 1].date)
         THEN GroupFrom(data, i + 1, Append(cur, data[i]))
         ELSE <<cur>> \o GroupFrom(data, i + 1, <<data[i]>>)
GroupByMonth(data) == IF data = <<>> THEN <<>> ELSE GroupFrom(data, 2, <<data[1]>>)

\* month_dict.get(d, ''): the value of the last entry of the group on day d
MonthDictGet(month_data, d) ==
    LET hits == {i \in 1..Len(month_data) : month_data[i].date.d = d} IN
    IF hits = {} THEN <<>>
    ELSE month_data[CHOOSE i \in hits : \A j \in hits : j <= i].value

\* range(a, b)
Range(a, b) == [i \in 1..(b - a) |-> a + i - 1]

\* rows
GridRows(n_days) == <<Range(1, 9), Range(9, 17), Range(17, 25), Range(25, n_days + 1)>>

\* the number of placeholder cells appended to the last row
\* (faulty variant: one placeholder short)
PaddingSlotsMut(dates) == RowSlots - 1 - Len(dates)
PaddingSlots(dates) == RowSlots - Len(dates)

FormatRow(row, rows, n_days, month_data) ==
    LET InMonth(d) == d <= n_days
        dates == SelectSeq(row, InMonth)
        values == [k \in 1..Len(dates) |-> MonthDictGet(month_data, dates[k])]
        formatted_dates ==
            Join([k \in 1..Len(dates) |-> RJust(Dec(dates[k]), DayWidth)], <<" ">>)
        formatted_values ==
            Join([k \in 1..Len(dates) |-> LJust(values[k], CellWidth)], <<" ">>)
        padding_dates ==
            Join([k \in 1..PaddingSlots(dates) |-> Fill(" ", DayWidth)], <<" ">>)
        padding_values ==
            Join([k \in 1..PaddingSlots(dates) |-> Fill(" ", CellWidth)], <<" ">>)
    IN  IF row = rows[Len(rows)]
        THEN formatted_dates \o <<" ">> \o padding_dates \o <<" ", " ">>
             \o formatted_values \o <<" ">> \o padding_values
        ELSE formatted_dates \o <<" ", " ">> \o formatted_values

FormatMonth(month_data) ==
    LET first == month_data[1].date
        n_days == DaysInMonth(first.y, first.m)
        rows == GridRows(n_days)
        formatted_rows ==
            [r \in 1..Len(rows) |-> FormatRow(rows[r], rows, n_days, month_data)]
    IN  StrfMonthName(first) \o <<"\n">> \o Join(formatted_rows, <<"\n">>)

GridDatedStrings(text) ==
    LET parsed == ParseDated(text) IN
    IF ~parsed.ok THEN [ok |-> FALSE, text |-> <<>>]
    ELSE LET grouped_data == GroupByMonth(parsed.data) IN
         [ok |-> TRUE,
          text |-> Join([g \in 1..Len(grouped_data) |-> FormatMonth(grouped_data[g])],
                        <<"\n", "\n">>)]

-----------------------------------------------------------------------------
(* Inputs of the enumerate_seq / grid_dated_strings model *)

MaxPlanLen == 3

GridLabels == {<<"p","l","a","c","e","b","o">>, <<"t","r","e","a","t","m","e","n","t">>, <<"a",":"," ","b">>, <<>>}

\* accepted by strptime
GoodStartDates == {<<"2","0","2","4","-","0","2","-","2","8">>,
                   <<"2","0","2","3","-","0","2","-","2","7">>,
                   <<"2","0","2","5","-","1","2","-","3","0">>,
                   <<"2","0","2","5","-","0","4","-","2","9">>,
                   <<"2","0","2","4","-","1","-","3","1">>,
                   <<"2","0","2","5","-","0","1","-","0","1">>}
\* rejected by strptime
BadStartDates == {<<"2","0","2","5","-","0","2","-","3","0">>,
                  <<"2","0","2","5","/","0","1","/","0","1">>,
                  <<"0","1","-","0","1","-","2","0","2","5">>}
StartDates == GoodStartDates \cup BadStartDates

\* texts handed to grid_dated_strings directly
DirectInputs == {<<"2","0","2","5","-","0","2","-","3","0",":"," ","p","l","a","c","e","b","o">>,
                 <<"2","0","2","5","-","0","3","-","0","5",":"," ","p","l","a","c","e","b","o","\n","2","0","2","5","-","0","1","-","0","2",":"," ","t","r","e","a","t","m","e","n","t","\n","2","0","2","5","-","0","3","-","0","7",":"," ","p","l","a","c","e","b","o">>,
                 <<"2","0","2","5","-","0","1","-","0","5",":"," ","p","l","a","c","e","b","o","\n","2","0","2","5","-","0","1","-","0","5",":"," ","t","r","e","a","t","m","e","n","t">>,
                 <<"p","l","a","c","e","b","o">>,
                 <<"2","0","2","5","-","0","6","-","3","0",":"," ","p","l","a","c","e","b","o","\n">>,
                 <<"2","0","2","5","-","0","1","-","0","1",":","p","l","a","c","e","b","o">>,
                 <<"2","0","2","5","-","0","1","-","0","1",":"," ","a",":"," ","b">>,
                 <<"2","0","2","4","-","0","2","-","2","9",":"," ","t","r","e","a","t","m","e","n","t","\n","2","0","2","4","-","3","-"," ","1",":"," ","p","l","a","c","e","b","o">>}

GridInit ==
    \/ /\ epc = "call_enumerate"
       /\ origin = "pipeline"
       /\ s \in SeqsUpTo(GridLabels, MaxPlanLen)
       /\ use_date \in BOOLEAN
       /\ start_date \in StartDates
       /\ dated_strings = <<>>
       /\ grid = <<>>
    \/ /\ epc = "call_grid"
       /\ origin = "direct"
       /\ s = <<>>
       /\ use_date = TRUE
       /\ start_date = <<>>
       /\ dated_strings \in DirectInputs
       /\ grid = <<>>

\* dated_list = enumerate_seq(seq, use_date, start_date)
EnumerateCall ==
    /\ epc = "call_enumerate"
    /\ LET r == EnumerateSeq(s, use_date, start_date) IN
          /\ dated_strings' = r.text
          /\ epc' = IF r.ok THEN "enumerated" ELSE "enumerate_error"
    /\ UNCHANGED <<s, use_date, start_date, grid, origin>>

\* gridded_dates = grid_dated_strings(dated_list)
GridCall ==
    /\ epc \in {"enumerated", "call_grid"}
    /\ LET r == GridDatedStrings(dated_strings) IN
          /\ grid' = r.text
          /\ epc' = IF r.ok THEN "gridded" ELSE "grid_error"
    /\ UNCHANGED <<s, use_date, start_date, dated_strings, origin>>

InitGrid == GridInit /\ GenIdle

NextGrid ==
    \/ (EnumerateCall /\ UNCHANGED genVars)
    \/ (GridCall /\ UNCHANGED genVars)

SpecGrid == InitGrid /\ [][NextGrid]_vars

-----------------------------------------------------------------------------
(* Properties of enumerate_seq and grid_dated_strings *)

\* the Gregorian calendar, stated on its own
GregorianLeap(y) == (y % 400 = 0) \/ (y % 4 = 0 /\ y % 100 # 0)
CalendarDays(y, m) ==
    IF m = 2 THEN (IF GregorianLeap(y) THEN 29 ELSE 28)
    ELSE IF m \in {4, 6, 9, 11} THEN 30 ELSE 31
NextDay(dt) ==
    IF dt.d < CalendarDays(dt.y, dt.m) THEN [y |-> dt.y, m |-> dt.m, d |-> dt.d + 1]
    ELSE IF dt.m < 12 THEN [y |-> dt.y, m |-> dt.m + 1, d |-> 1]
    ELSE [y |-> dt.y + 1, m |-> 1, d |-> 1]
RECURSIVE NthDay(_, _)
NthDay(dt, n) == IF n = 0 THEN dt ELSE NextDay(NthDay(dt, n - 1))

\* the date the plan starts on, and the date of its i-th entry (1-based)
StartDay == StrpTime(start_date).date
PlanDay(i) == NthDay(StartDay, i - 1)

\* a line reads "YYYY-MM-DD: label" with the given date and label
IsDatedLine(line, dt, label) ==
    /\ Len(line) = 12 + Len(label)
    /\ AllDigits(SubSeq(line, 1, 4)) /\ NumVal(SubSeq(line, 1, 4)) = dt.y
    /\ line[5] = "-"
    /\ AllDigits(SubSeq(line, 6, 7)) /\ NumVal(SubSeq(line, 6, 7)) = dt.m
    /\ line[8] = "-"
    /\ AllDigits(SubSeq(line, 9, 10)) /\ NumVal(SubSeq(line, 9, 10)) = dt.d
    /\ line[11] = ":" /\ line[12] = " "
    /\ SubSeq(line, 13, Len(line)) = label

\* C6: with use_date true and a start date that parses, enumerate_seq emits one
\* line per plan element, in plan order; line i is the date i days after the
\* start date (each date the calendar successor of the one before), then ": ",
\* then the i-th label.
C6_DatedLines ==
    /\ (origin = "pipeline" /\ start_date \in GoodStartDates)
          => epc # "enumerate_error"
    /\ (origin = "pipeline" /\ use_date
          /\ epc \in {"enumerated", "gridded", "grid_error"})
          => LET lines == SplitLines(dated_strings) IN
             /\ Len(lines) = Len(s)
             /\ \A i \in 1..Len(s) : IsDatedLine(lines[i], PlanDay(i), s[i])

\* C6 witness: three dated lines starting on 2025-12-30, across the year end.
C6_Witness ==
    /\ origin = "pipeline" /\ use_date /\ epc = "enumerated"
    /\ start_date = <<"2","0","2","5","-","1","2","-","3","0">> /\ Len(s) = 3

\* the grid as a reader sees it: month blocks separated by a blank line, each a
\* title line and rows; within a row the day cells, two spaces, the value cells
\* the pieces of a text between the places where it holds a separator
Cuts(t, sep) ==
    {i \in 1..(Len(t) - Len(sep) + 1) : \A k \in 1..Len(sep) : t[i + k - 1] = sep[k]}
Pieces(t, sep) ==
    LET c == Cuts(t, sep)
        Nth(j) == CHOOSE q \in c : Cardinality({x \in c : x < q}) = j - 1
    IN  [j \in 1..(Cardinality(c) + 1) |->
           SubSeq(t, IF j = 1 THEN 1 ELSE Nth(j - 1) + Len(sep),
                     IF j = Cardinality(c) + 1 THEN Len(t) ELSE Nth(j) - 1)]
GridBlocks == IF grid = <<>> THEN <<>> ELSE Pieces(grid, <<"\n", "\n">>)
BlockLines(block) == Pieces(block, <<"\n">>)
RowWidth == RowSlots * DayWidth + (RowSlots - 1) + 2 + RowSlots * CellWidth + (RowSlots - 1)
ValuesStart == RowSlots * DayWidth + (RowSlots - 1) + 2
DayCell(row, k) == SubSeq(row, (DayWidth + 1) * k + 1, (DayWidth + 1) * k + DayWidth)
ValueCell(row, k) ==
    SubSeq(row, ValuesStart + (CellWidth + 1) * k + 1,
                ValuesStart + (CellWidth + 1) * k + CellWidth)
\* the value cell of day d, given the lines of its month block
CellOfDay(lines, d) ==
    ValueCell(lines[2 + ((d - 1) \div RowSlots)], (d - 1) % RowSlots)
Blank(w) == Fill(" ", w)

\* the year-months of the plan's dates, in order, without repeats
RECURSIVE PlanMonthsFrom(_)
PlanMonthsFrom(i) ==
    IF i > Len(s) THEN <<>>
    ELSE IF i > 1 /\ PlanDay(i).m = PlanDay(i - 1).m /\ PlanDay(i).y = PlanDay(i - 1).y
         THEN PlanMonthsFrom(i + 1)
         ELSE <<[y |-> PlanDay(i).y, m |-> PlanDay(i).m]>> \o PlanMonthsFrom(i + 1)
PlanMonths == PlanMonthsFrom(1)

\* every day cell of the grid shows the label the plan has for that date, and
\* nothing for a date the plan does not cover
GridShowsPlan ==
    LET blocks == GridBlocks IN
    /\ Len(blocks) = Len(PlanMonths)
    /\ \A j \in 1..Len(PlanMonths) :
          LET ym == PlanMonths[j]
              block == BlockLines(blocks[j])
          IN  /\ Len(block) = 5
              /\ block[1] = MonthNames[ym.m] \o <<" ">> \o Dec(ym.y)
              /\ \A d \in 1..CalendarDays(ym.y, ym.m) :
                    LET hits == {i \in 1..Len(s) :
                                   PlanDay(i) = [y |-> ym.y, m |-> ym.m, d |-> d]}
                    IN  IF hits = {} THEN CellOfDay(block, d) = Blank(CellWidth)
                        ELSE \A i \in hits : CellOfDay(block, d) = LJust(s[i], CellWidth)

HasSeparator(t) == \E i \in 1..(Len(t) - 1) : t[i] = ":" /\ t[i + 1] = " "
FirstSeparator(t) ==
    CHOOSE i \in 1..(Len(t) - 1) :
        /\ t[i] = ":" /\ t[i + 1] = " "
        /\ \A j \in 1..(i - 1) : ~(t[j] = ":" /\ t[j + 1] = " ")
BeforeFirst(t) == SubSeq(t, 1, FirstSeparator(t) - 1)
AfterFirst(t) == SubSeq(t, FirstSeparator(t) + 2, Len(t))

\* C7 as stated: the grid of a dated enumeration of any plan shows, for every
\* plan index, the label at that date's cell, and no label elsewhere.
C7_RoundTrip ==
    (origin = "pipeline" /\ use_date /\ epc \in {"gridded", "grid_error"})
        => (epc = "gridded" /\ GridShowsPlan)

\* the round trip of the plans none of whose labels contains ": "
RoundTripPlainLabels ==
    (origin = "pipeline" /\ use_date /\ epc \in {"gridded", "grid_error"}
       /\ \A i \in 1..Len(s) : ~HasSeparator(s[i]))
        => (epc = "gridded" /\ GridShowsPlan)

\* the first dates of the month groups of the formatter's input
GroupFirstDates ==
    LET groups == GroupByMonth(ParseDated(dated_strings).data) IN
    [g \in 1..Len(groups) |-> groups[g][1].date]

C9_SplitFirst ==
    (epc \in {"gridded", "grid_error"}) =>
        LET lines == SplitLines(dated_strings) IN
        /\ (epc = "grid_error") <=>
              (\E i \in 1..Len(lines) :
                   \/ ~HasSeparator(lines[i])
                   \/ ~StrpTime(BeforeFirst(lines[i])).ok)
        /\ (epc = "gridded") =>
              \A i \in 1..Len(lines) :
                  ParseDated(dated_strings).data[i].value = AfterFirst(lines[i])

\* what the formatter does instead: it fails exactly when some line does not
\* have exactly one ": " or the text before it is not a valid date
SplitEverySeparator ==
    (epc \in {"gridded", "grid_error"}) =>
        LET lines == SplitLines(dated_strings) IN
        (epc = "grid_error") <=>
            (\E i \in 1..Len(lines) :
                 \/ ~HasSeparator(lines[i])
                 \/ HasSeparator(AfterFirst(lines[i]))
                 \/ ~StrpTime(BeforeFirst(lines[i])).ok)

====
